---- MODULE Spec2Model ----
(***************************************************************************)
(* A model of the rwxrob/pegn buffered rune scanner (scanner.S), its       *)
(* cursor (curs.R), its error stack and the scan predicates built on it.   *)
(* Bytes are integers 0..255, a buffer is a sequence of bytes, offsets are *)
(* Go's 0-based offsets (byte i of the buffer is buf[i+1]).                *)
(***************************************************************************)
EXTENDS Integers, Sequences, FiniteSets, TLC

VARIABLES
  Buf,     \* S.Buf: the bytes buffer
  R,       \* S.R: last scanned rune
  B,       \* S.B: offset of the beginning of R
  E,       \* S.E: offset of the end of R (beginning of the next rune)
  errors,  \* S.errors: the error stack, most recent last
  maxerr,  \* S.maxerr
  marks,   \* the cursor the caller holds from its last call of Mark()
           \* (a set: empty before the first call)
  fresh,   \* ghost: the held cursor was returned by Mark() on the current
           \* buffer, from a live cursor that was not stale
  stale,   \* ghost: since the last Buffer() call Goto() was given a cursor
           \* that is not fresh
  ret,     \* the last call: [op |-> its name, val |-> its return value]
  heap,    \* the ast.Node values allocated so far: heap[i] is the node
           \* the pointer i points to, the nil pointer is 0
  cp,      \* the copy the caller holds: <<>> before n.Copy() is called,
           \* then [n |-> the node copied, c |-> the node returned]
  calls    \* the number of steps the callers have made on the nodes

vars ==
  <<Buf, R, B, E, errors, maxerr, marks, fresh, stale, ret, heap, cp,
    calls>>

\* the variables of the scanner and those of the node trees
scannerVars == <<Buf, R, B, E, errors, maxerr, marks, fresh, stale>>
treeVars == <<heap, cp, calls>>

----------------------------------------------------------------------------
(* Bounds of the model.                                                    *)

\* buffers are concatenations of at most MaxChunks chunks
MaxChunks == 3
\* replacement buffers given to Buffer() have at most MaxReplChunks chunks
MaxReplChunks == 1
\* the model stops pushing when the error stack holds MaxErrs records
MaxErrs == 2

----------------------------------------------------------------------------
(* Bytes, runes and buffers.                                               *)

SP == 32
TAB == 9
LF == 10
CR == 13
NUL == 0
\* utf8.RuneSelf and utf8.RuneError of the Go library used by S.Scan
RuneSelf == 128
RuneError == 65533

\* The pieces buffers are made of. Text: white space, a digit, a letter,
\* a 2-byte code point and a bare continuation byte. UTF-8: a letter, a
\* 2-byte, a 3-byte and a 4-byte code point, a bare continuation byte and
\* a truncated 3-byte sequence.
TextChunks == { <<SP>>, <<LF>>, <<CR>>, <<49>>, <<97>>, <<195, 169>>, <<128>> }
Utf8Chunks ==
  { <<97>>, <<195, 169>>, <<226, 130, 172>>, <<240, 159, 152, 128>>,
    <<128>>, <<226, 130>> }

RECURSIVE ChunkSeqs(_, _)
ChunkSeqs(chunks, n) ==
  IF n = 0 THEN { <<>> }
  ELSE LET shorter == ChunkSeqs(chunks, n - 1)
       IN  shorter \cup { s \o c : s \in shorter, c \in chunks }

\* the buffers of the cursor model and of the scan-predicate model
Buffers == ChunkSeqs(Utf8Chunks, MaxChunks)
ReplBuffers == ChunkSeqs(Utf8Chunks, MaxReplChunks)
TextBuffers == ChunkSeqs(TextChunks, MaxChunks)

\* Go's buf[lo:hi] of a slice whose capacity is its length: the bytes at
\* offsets lo..hi-1, or a run-time panic when the bounds are out of range.
Panic == <<-1>>
Slice(buf, lo, hi) ==
  IF lo < 0 \/ lo > hi \/ hi > Len(buf) THEN Panic
  ELSE SubSeq(buf, lo + 1, hi)

----------------------------------------------------------------------------
(* utf8.DecodeRune, as called by S.Scan on Buf[E:].                        *)

\* size of the sequence a leading byte announces, 0 for an invalid leader
LeadSize(p0) ==
  IF p0 < 128 THEN 1
  ELSE IF p0 < 194 THEN 0
  ELSE IF p0 < 224 THEN 2
  ELSE IF p0 < 240 THEN 3
  ELSE IF p0 < 245 THEN 4
  ELSE 0

\* accepted range of the second byte
AcceptLo(p0) == IF p0 = 224 THEN 160 ELSE IF p0 = 240 THEN 144 ELSE 128
AcceptHi(p0) == IF p0 = 237 THEN 159 ELSE IF p0 = 244 THEN 143 ELSE 191

IsCont(b) == b >= 128 /\ b <= 191

\* [r |-> rune, ln |-> width] of the bytes of buf from offset e on
DecodeRune(buf, e) ==
  LET n  == Len(buf) - e
      p0 == buf[e + 1]
      sz == LeadSize(p0)
      bad == [r |-> RuneError, ln |-> 1]
  IN  IF n < 1 THEN [r |-> RuneError, ln |-> 0]
      ELSE IF sz = 1 THEN [r |-> p0, ln |-> 1]
      ELSE IF sz = 0 \/ n < sz THEN bad
      ELSE LET b1 == buf[e + 2]
           IN  IF b1 < AcceptLo(p0) \/ b1 > AcceptHi(p0) THEN bad
               ELSE IF sz = 2
                 THEN [r |-> (p0 % 32) * 64 + (b1 % 64), ln |-> 2]
               ELSE LET b2 == buf[e + 3]
                    IN  IF ~IsCont(b2) THEN bad
                        ELSE IF sz = 3
                          THEN [r |-> (p0 % 16) * 4096 + (b1 % 64) * 64
                                       + (b2 % 64), ln |-> 3]
                        ELSE LET b3 == buf[e + 4]
                             IN  IF ~IsCont(b3) THEN bad
                                 ELSE [r |-> (p0 % 8) * 262144
                                              + (b1 % 64) * 4096
                                              + (b2 % 64) * 64
                                              + (b3 % 64), ln |-> 4]

----------------------------------------------------------------------------
(* The scanner's operations as functions of the buffer and of the scanner  *)
(* state s = [R, B, E, errors]; each returns [ok |-> result, s |-> state]. *)

Cursor(r, b, e) == [R |-> r, B |-> b, E |-> e]

\* a Mark that does not record the rune
MarkNoRune(s) == Cursor(NUL, s.B, s.E)

\* S.Mark
Mark(s) == Cursor(s.R, s.B, s.E)

\* a Goto that restores the span and keeps the rune last scanned
GotoKeepRune(s, c) == [s EXCEPT !.B = c.B, !.E = c.E]

\* S.Goto
Goto(s, c) == [s EXCEPT !.R = c.R, !.B = c.B, !.E = c.E]

\* S.ErrPush
ErrPush(s, e) == [s EXCEPT !.errors = Append(s.errors, e)]

\* pegn.Error{ruleid, s.Mark()}
Error(t, c) == [T |-> t, C |-> c]

\* S.Expected
Expected(s, ruleid) ==
  [ok |-> FALSE, s |-> ErrPush(s, Error(ruleid, Mark(s)))]

\* a Revert that goes to the mark before it records the error
RevertGotoFirst(s, m, ruleid) ==
  [ok |-> FALSE, s |-> ErrPush(Goto(s, m), Error(ruleid, m))]

\* S.Revert
Revert(s, m, ruleid) ==
  [ok |-> FALSE, s |-> Goto(Expected(s, ruleid).s, m)]

\* an ErrPop that takes the oldest error
ErrPopOldest(s) ==
  IF s.errors = <<>> THEN [e |-> <<>>, s |-> s]
  ELSE [e |-> <<Head(s.errors)>>, s |-> [s EXCEPT !.errors = Tail(s.errors)]]

\* S.ErrPop: the popped error (<<>> for nil) and the new state
ErrPop(s) ==
  LET l == Len(s.errors)
  IN  IF l = 0 THEN [e |-> <<>>, s |-> s]
      ELSE [e |-> <<s.errors[l]>>,
            s |-> [s EXCEPT !.errors = SubSeq(s.errors, 1, l - 1)]]

\* a Scan that records an error when it is at the end of the buffer
ScanErrAtEnd(buf, s) ==
  IF s.E >= Len(buf)
  THEN [ok |-> FALSE, s |-> ErrPush(s, Error(NUL, Mark(s)))]
  ELSE LET b0 == buf[s.E + 1]
           d  == IF b0 > RuneSelf THEN DecodeRune(buf, s.E)
                 ELSE [r |-> b0, ln |-> 1]
       IN  [ok |-> TRUE,
            s |-> [s EXCEPT !.B = s.E, !.E = s.E + d.ln, !.R = d.r]]

\* a Scan that stops at a byte that is no UTF-8, as it stops at the end
ScanStopsAtBadByte(buf, s) ==
  IF s.E >= Len(buf) THEN [ok |-> FALSE, s |-> s]
  ELSE LET b0 == buf[s.E + 1]
           d  == IF b0 > RuneSelf THEN DecodeRune(buf, s.E)
                 ELSE [r |-> b0, ln |-> 1]
       IN  IF d.ln = 0 \/ d.r = RuneError THEN [ok |-> FALSE, s |-> s]
           ELSE [ok |-> TRUE,
                 s  |-> [s EXCEPT !.B = s.E, !.E = s.E + d.ln, !.R = d.r]]

\* S.Scan
Scan(buf, s) ==
  IF s.E >= Len(buf) THEN [ok |-> FALSE, s |-> s]
  ELSE LET b0 == buf[s.E + 1]
           d  == IF b0 > RuneSelf THEN DecodeRune(buf, s.E)
                 ELSE [r |-> b0, ln |-> 1]
       IN  IF d.ln = 0 THEN [ok |-> FALSE, s |-> s]
           ELSE [ok |-> TRUE,
                 s  |-> [s EXCEPT !.B = s.E, !.E = s.E + d.ln, !.R = d.r]]

\* a Peek that matches from the beginning of the rune last scanned
PeekFromB(buf, s, a) ==
  IF Len(a) + s.B > Len(buf) \/ s.B < 0 THEN FALSE
  ELSE SubSeq(buf, s.B + 1, s.B + Len(a)) = a

\* S.Peek
Peek(buf, s, a) ==
  IF Len(a) + s.E > Len(buf) THEN FALSE
  ELSE Slice(buf, s.E, s.E + Len(a)) = a

\* S.Finished
Finished(buf, s) == s.E = Len(buf)

\* S.Beginning
Beginning(s) == s.E = 0

\* S.CopyEE
CopyEE(buf, s, m) ==
  IF m.B <= s.B THEN Slice(buf, m.E, s.E) ELSE Slice(buf, s.E, m.E)

\* S.CopyBE
CopyBE(buf, s, m) ==
  IF m.B <= s.B THEN Slice(buf, m.B, s.E) ELSE Slice(buf, s.B, m.E)

\* S.CopyBB
CopyBB(buf, s, m) ==
  IF m.B <= s.B THEN Slice(buf, m.B, s.B) ELSE Slice(buf, s.B, m.B)

\* S.CopyEB
CopyEB(buf, s, m) ==
  IF m.B <= s.B THEN Slice(buf, m.E, s.B) ELSE Slice(buf, s.E, m.B)

----------------------------------------------------------------------------
(* Class functions (package is) and rule identifiers (package rule/id).    *)

\* is.C_ws
C_ws_class(r) == r \in {SP, TAB, LF, CR}

\* is.C_digit: digit <- [0-9]
C_digit_class(r) == r >= 48 /\ r <= 57

\* is.C_uprint = unicode.IsPrint, on Latin-1 and on the other runes a
\* buffer of the model decodes to (U+20AC, U+1F600, U+FFFD)
C_uprint(r) ==
  \/ r >= 32 /\ r <= 126
  \/ r >= 161 /\ r <= 255 /\ r # 173
  \/ r \in {8364, 128512, RuneError}

id_C_ws == -77
id_C_digit == -78
id_C_uprint == -79
id_MajorVer == -80
T_WhiteSpace == -81

----------------------------------------------------------------------------
(* Scan predicates: [ok |-> the bool returned, s |-> the scanner after].   *)

Ret(ok, s) == [ok |-> ok, s |-> s]

\* scan.C_ws
C_ws(buf, s) ==
  LET m  == Mark(s)
      sc == Scan(buf, s)
  IN  IF ~sc.ok THEN Ret(FALSE, sc.s)
      ELSE IF C_ws_class(sc.s.R) THEN Ret(TRUE, sc.s)
      ELSE Revert(sc.s, m, id_C_ws)

\* a C_digit that records the error and leaves the cursor where Scan put it
C_digitNoGoto(buf, s) ==
  LET sc == Scan(buf, s)
  IN  IF ~sc.ok THEN Ret(FALSE, sc.s)
      ELSE IF C_digit_class(sc.s.R) THEN Ret(TRUE, sc.s)
      ELSE Expected(sc.s, id_C_digit)

\* scan.C_digit
C_digit(buf, s) ==
  LET m  == Mark(s)
      sc == Scan(buf, s)
  IN  IF ~sc.ok THEN Ret(FALSE, sc.s)
      ELSE IF C_digit_class(sc.s.R) THEN Ret(TRUE, sc.s)
      ELSE Revert(sc.s, m, id_C_digit)

\* scan.WhiteSpace
WhiteSpace(buf, s) ==
  LET m  == Mark(s)
      sc == Scan(buf, s)
  IN  IF ~sc.ok THEN Ret(FALSE, sc.s)
      ELSE IF sc.s.R \in {SP, TAB, LF, CR} THEN Ret(TRUE, sc.s)
      ELSE Revert(sc.s, m, T_WhiteSpace)

\* scan.Is_ws, which scan.SomeWS calls under the name WS
WS(buf, s) ==
  LET m  == Mark(s)
      sc == Scan(buf, s)
  IN  IF ~sc.ok THEN Ret(FALSE, sc.s)
      ELSE IF sc.s.R \in {SP, TAB, CR, LF} THEN Ret(TRUE, sc.s)
      ELSE Ret(FALSE, Goto(sc.s, m))

\* pegn.WhiteSpace.Scan
WhiteSpace_Scan(buf, s) ==
  LET m  == Mark(s)
      sc == Scan(buf, s)
  IN  IF ~sc.ok THEN Ret(FALSE, sc.s)
      ELSE IF sc.s.R \in {SP, TAB, LF, CR} THEN Ret(TRUE, sc.s)
      ELSE Ret(FALSE, Goto(sc.s, m))

\* the loop "for WS(s) {}" of scan.SomeWS: the state when WS first fails
RECURSIVE WSLoop(_, _)
WSLoop(buf, s) ==
  LET w == WS(buf, s)
  IN  IF w.ok THEN WSLoop(buf, w.s) ELSE w.s

\* scan.SomeWS (scan/scan.go)
SomeWS(buf, s) ==
  LET m == Mark(s)
      w == WS(buf, s)
  IN  IF ~w.ok THEN Ret(FALSE, Goto(w.s, m))
      ELSE Ret(TRUE, WSLoop(buf, w.s))

\* the loop "for s.Scan() { switch ... continue ... break }" of the other
\* SomeWS: [s |-> the state when it ends, found |-> the flag]
RECURSIVE SomeWSScanLoop(_, _, _)
SomeWSScanLoop(buf, s, found) ==
  LET sc == Scan(buf, s)
  IN  IF ~sc.ok THEN [s |-> sc.s, found |-> found]
      ELSE IF sc.s.R \in {SP, TAB, CR, LF}
        THEN SomeWSScanLoop(buf, sc.s, TRUE)
      ELSE [s |-> sc.s, found |-> found]

\* scan.SomeWS (the version looping on s.Scan)
SomeWS_loop(buf, s) ==
  LET m == Mark(s)
      l == SomeWSScanLoop(buf, s, FALSE)
  IN  IF ~l.found THEN Ret(FALSE, Goto(l.s, m)) ELSE Ret(TRUE, l.s)

\* scan.EndLine: the result of the first s.Scan() is not looked at
EndLine(buf, s) ==
  LET m  == Mark(s)
      s1 == Scan(buf, s).s
  IN  IF s1.R = LF THEN Ret(TRUE, s1)
      ELSE IF s1.R = CR
        THEN LET sc == Scan(buf, s1)
             IN  IF sc.ok /\ sc.s.R = LF THEN Ret(TRUE, sc.s)
                 ELSE Ret(FALSE, Goto(sc.s, m))
      ELSE Ret(FALSE, Goto(s1, m))

\* the value v handed to Op once it is computed, as a call hands a value to
\* the statements that follow it
With(v, Op(_)) == CHOOSE r \in { Op(x) : x \in {v} } : TRUE

\* the third case of the switch of scan.EndPara, EndLine(s) && EndLine(s):
\* the second call is made only when the first one returns true
EndLine2(buf, s) ==
  With(EndLine(buf, s), LAMBDA e2 :
    IF e2.ok THEN EndLine(buf, e2.s) ELSE e2)

\* the block TOP of scan.EndPara: the cases of the switch are tried in
\* order, each keeping the effects of the calls made by the ones before
RECURSIVE EndParaTop(_, _, _)
EndParaTop(buf, s, found) ==
  With(s, LAMBDA s0 :
    IF Finished(buf, s0) THEN [s |-> s0, found |-> TRUE]
    ELSE With(EndLine(buf, s0), LAMBDA e1 :
      IF e1.ok /\ Finished(buf, e1.s) THEN [s |-> e1.s, found |-> TRUE]
      ELSE With(EndLine2(buf, e1.s), LAMBDA e3 :
        IF e3.ok THEN EndParaTop(buf, e3.s, TRUE)
        ELSE With(SomeWS(buf, e3.s), LAMBDA w :
          IF w.ok THEN EndParaTop(buf, w.s, found)
          ELSE [s |-> w.s, found |-> found]))))

\* scan.EndPara
EndPara(buf, s) ==
  LET m == Mark(s)
      t == EndParaTop(buf, s, FALSE)
  IN  IF ~t.found THEN Ret(FALSE, Goto(t.s, m)) ELSE Ret(TRUE, t.s)

\* the loop of scan.Field: [s |-> the state when it ends, c |-> the count]
RECURSIVE FieldLoop(_, _, _)
FieldLoop(buf, s, c) ==
  IF Peek(buf, s, <<SP>>) THEN [s |-> s, c |-> c]
  ELSE LET sc == Scan(buf, s)
       IN  IF sc.ok /\ C_uprint(sc.s.R) THEN FieldLoop(buf, sc.s, c + 1)
           ELSE [s |-> sc.s, c |-> c]

\* scan.Field
Field(buf, s) ==
  LET m == Mark(s)
      l == FieldLoop(buf, s, 0)
  IN  IF l.c > 0 THEN Ret(TRUE, l.s) ELSE Revert(l.s, m, id_C_uprint)

\* the loop of scan.MajorVer
RECURSIVE MajorVerLoop(_, _, _)
MajorVerLoop(buf, s, c) ==
  IF Peek(buf, s, <<SP>>) THEN [s |-> s, c |-> c]
  ELSE LET sc == Scan(buf, s)
       IN  IF sc.ok /\ C_digit_class(sc.s.R)
             THEN MajorVerLoop(buf, sc.s, c + 1)
           ELSE [s |-> sc.s, c |-> c]

\* scan.MajorVer
MajorVer(buf, s) ==
  LET m == Mark(s)
      l == MajorVerLoop(buf, s, 0)
  IN  IF l.c > 0 THEN Ret(TRUE, l.s) ELSE Revert(l.s, m, id_MajorVer)

\* pegn.Uprint.Scan
Uprint_Scan(buf, s) ==
  LET m == Mark(s)
  IN  IF Finished(buf, s) THEN Ret(FALSE, s)
      ELSE LET s1 == Scan(buf, s).s
           IN  IF C_uprint(s1.R) THEN Ret(TRUE, s1)
               ELSE Ret(FALSE, Goto(s1, m))

\* the loop of pegn.Field.Scan
RECURSIVE FieldScanLoop(_, _, _)
FieldScanLoop(buf, s, c) ==
  IF Peek(buf, s, <<SP>>) THEN [s |-> s, c |-> c]
  ELSE LET u == Uprint_Scan(buf, s)
       IN  IF u.ok THEN FieldScanLoop(buf, u.s, c + 1)
           ELSE [s |-> u.s, c |-> c]

\* pegn.Field.Scan
Field_Scan(buf, s) ==
  LET m == Mark(s)
      l == FieldScanLoop(buf, s, 0)
  IN  IF l.c > 0 THEN Ret(TRUE, l.s) ELSE Ret(FALSE, Goto(l.s, m))


----------------------------------------------------------------------------
(* The scanner as a state machine.                                         *)

\* the scanner state the operations above work on
S == [R |-> R, B |-> B, E |-> E, errors |-> errors]

SetS(s) == R' = s.R /\ B' = s.B /\ E' = s.E /\ errors' = s.errors

Called(op, val) == ret' = [op |-> op, val |-> val]

\* the same for a call whose arguments the properties below speak of
CalledWith(op, val, arg) == ret' = [op |-> op, val |-> val, arg |-> arg]

\* scanner.New(b): an empty scanner given its buffer
New(b) ==
  /\ Buf = b
  /\ R = NUL /\ B = 0 /\ E = 0
  /\ errors = <<>>
  /\ maxerr = 0
  /\ marks = {}
  /\ fresh = FALSE
  /\ stale = FALSE
  /\ ret = [op |-> "New", val |-> TRUE]
  /\ heap = <<>>
  /\ cp = <<>>
  /\ calls = 0

\* a Buffer that also empties the error stack
BufferClearErrors(s, b) ==
  [buf |-> b, s |-> [R |-> NUL, B |-> 0, E |-> 0, errors |-> <<>>]]

\* a Buffer that replaces the bytes and keeps the cursor
BufferKeepCursor(s, b) == [buf |-> b, s |-> s]

\* S.Buffer given a string or a []byte: [buf |-> the buffer, s |-> the state]
Buffer(s, b) == [buf |-> b, s |-> [s EXCEPT !.R = NUL, !.B = 0, !.E = 0]]

DoBuffer ==
  \E b \in ReplBuffers :
    LET r == Buffer(S, b)
    IN  /\ Buf' = r.buf
        /\ SetS(r.s)
        /\ fresh' = FALSE
        /\ stale' = FALSE
        /\ CalledWith("Buffer", TRUE, b)
        /\ UNCHANGED <<treeVars, maxerr, marks>>

DoScan ==
  LET r == Scan(Buf, S)
  IN  /\ SetS(r.s)
      /\ Called("Scan", r.ok)
      /\ UNCHANGED <<treeVars, Buf, maxerr, marks, fresh, stale>>

DoMark ==
  /\ marks' = {Mark(S)}
  /\ fresh' = ~stale
  /\ Called("Mark", TRUE)
  /\ UNCHANGED <<treeVars, Buf, R, B, E, errors, maxerr, stale>>

DoGoto ==
  \E c \in marks :
    /\ SetS(Goto(S, c))
    /\ stale' = (stale \/ ~fresh)
    /\ Called("Goto", TRUE)
    /\ UNCHANGED <<treeVars, Buf, maxerr, marks, fresh>>

CopyOps == {"CopyEE", "CopyBE", "CopyBB", "CopyEB"}

Copy(op, buf, s, m) ==
  CASE op = "CopyEE" -> CopyEE(buf, s, m)
    [] op = "CopyBE" -> CopyBE(buf, s, m)
    [] op = "CopyBB" -> CopyBB(buf, s, m)
    [] op = "CopyEB" -> CopyEB(buf, s, m)

\* s.CopyXX(m) with the held cursor
DoCopy ==
  \E op \in CopyOps, m \in marks :
    /\ Called(op, Copy(op, Buf, S, m))
    /\ UNCHANGED <<treeVars, Buf, R, B, E, errors, maxerr, marks, fresh, stale>>

\* the rule types the callers of the model pass to Expected and Revert
RuleTypes == {id_C_ws, id_C_digit}

\* S.SetMaxErr: the new value of S.maxerr
SetMaxErr(i) == i

DoSetMaxErr ==
  /\ maxerr' = SetMaxErr(MaxErrs - 1)
  /\ Called("SetMaxErr", TRUE)
  /\ UNCHANGED <<treeVars, Buf, R, B, E, errors, marks, fresh, stale>>

DoExpected ==
  \E t \in RuleTypes :
    LET r == Expected(S, t)
    IN  /\ Len(errors) < MaxErrs
        /\ SetS(r.s)
        /\ Called("Expected", r.ok)
        /\ UNCHANGED <<treeVars, Buf, maxerr, marks, fresh, stale>>

DoRevert ==
  \E t \in RuleTypes, m \in marks :
    LET r == Revert(S, m, t)
    IN  /\ Len(errors) < MaxErrs
        /\ SetS(r.s)
        /\ stale' = (stale \/ ~fresh)
        /\ CalledWith("Revert", r.ok, [m |-> m, t |-> t])
        /\ UNCHANGED <<treeVars, Buf, maxerr, marks, fresh>>

\* s.ErrPush(e) with an error the caller made for the rule type t
DoErrPush ==
  \E t \in RuleTypes :
    LET e == Error(t, Cursor(NUL, 0, 0))
    IN  /\ Len(errors) < MaxErrs
        /\ SetS(ErrPush(S, e))
        /\ CalledWith("ErrPush", TRUE, e)
        /\ UNCHANGED <<treeVars, Buf, maxerr, marks, fresh, stale>>

\* the literals given to Peek
Literals == { <<>>, <<97>>, <<195, 169>>, <<97, 195>> }

DoPeek ==
  \E a \in Literals :
    /\ CalledWith("Peek", Peek(Buf, S, a), a)
    /\ UNCHANGED <<treeVars, Buf, R, B, E, errors, maxerr, marks, fresh, stale>>

DoErrPop ==
  LET r == ErrPop(S)
  IN  /\ SetS(r.s)
      /\ Called("ErrPop", r.e)
      /\ UNCHANGED <<treeVars, Buf, maxerr, marks, fresh, stale>>

Preds ==
  { "C_ws", "C_digit", "WhiteSpace", "WS", "WhiteSpace_Scan", "SomeWS",
    "SomeWS_loop", "EndLine", "EndPara", "Field", "MajorVer", "Uprint_Scan",
    "Field_Scan" }

\* the call of the scan predicate named p
Apply(p, buf, s) ==
  CASE p = "C_ws" -> C_ws(buf, s)
    [] p = "C_digit" -> C_digit(buf, s)
    [] p = "WhiteSpace" -> WhiteSpace(buf, s)
    [] p = "WS" -> WS(buf, s)
    [] p = "WhiteSpace_Scan" -> WhiteSpace_Scan(buf, s)
    [] p = "SomeWS" -> SomeWS(buf, s)
    [] p = "SomeWS_loop" -> SomeWS_loop(buf, s)
    [] p = "EndLine" -> EndLine(buf, s)
    [] p = "EndPara" -> EndPara(buf, s)
    [] p = "Field" -> Field(buf, s)
    [] p = "MajorVer" -> MajorVer(buf, s)
    [] p = "Uprint_Scan" -> Uprint_Scan(buf, s)
    [] p = "Field_Scan" -> Field_Scan(buf, s)

\* a scan predicate called by a caller that has discarded the error of the
\* attempt before
DoPred ==
  \E p \in Preds :
    LET r == Apply(p, Buf, S)
    IN  /\ errors = <<>>
        /\ SetS(r.s)
        /\ Called(p, r.ok)
        /\ UNCHANGED <<treeVars, Buf, maxerr, marks, fresh, stale>>

\* The cursor model: a scanner over any buffer, its buffer replaced, scanned,
\* marked and rewound, and ranges copied.
Init == \E b \in Buffers : New(b)

Next == DoBuffer \/ DoScan \/ DoMark \/ DoGoto \/ DoCopy \/ DoPeek

Spec == Init /\ [][Next]_vars

\* The error-stack model: a scanner over the text "a", "e acute", whose
\* errors are pushed and popped between scans, marks and rewinds.
ErrBuffer == <<97, 195, 169>>

InitErr == New(ErrBuffer)

NextErr ==
  \/ DoScan \/ DoMark \/ DoGoto
  \/ DoSetMaxErr \/ DoErrPush \/ DoExpected \/ DoRevert \/ DoErrPop

SpecErr == InitErr /\ [][NextErr]_vars

\* The buffer-replacement model: the same scanner, whose buffer is replaced
\* between scans and while errors are on the stack.
NextBuf == DoBuffer \/ DoScan \/ DoErrPush \/ DoErrPop

SpecBuf == InitErr /\ [][NextBuf]_vars

\* The scan-predicate model: a scanner over any text buffer, moved by Scan
\* and by the predicates.
InitScan == \E b \in TextBuffers : New(b)

NextScan == DoScan \/ DoPred \/ DoErrPop

SpecScan == InitScan /\ [][NextScan]_vars

----------------------------------------------------------------------------
(* ast.Node: the nodes live in the heap h, a sequence of records; a pointer *)
(* to a node is its index in h and 0 is the nil pointer. Each method is the *)
(* heap after the call, its assignments made one after the other.          *)

\* new(ast.Node)
ZeroNode ==
  [T |-> 0, V |-> "", P |-> 0, Count |-> 0,
   left |-> 0, right |-> 0, first |-> 0, last |-> 0]

\* the result of a loop that never ends
Forever == <<0>>

\* the loop of Node.Nodes from the node cur on, with the list built so far;
\* a list longer than the heap means the right links form a cycle
RECURSIVE NodesFrom(_, _, _)
NodesFrom(h, cur, list) ==
  IF cur = 0 THEN list
  ELSE IF Len(list) >= Len(h) THEN Forever
  ELSE NodesFrom(h, h[cur].right, list \o <<cur>>)

\* Node.Nodes
Node_Nodes(h, n) == NodesFrom(h, h[n].first, <<>>)

\* Node.Init
Node_Init(h, n) ==
  [h EXCEPT ![n].T = 0, ![n].V = "", ![n].first = 0, ![n].last = 0,
            ![n].left = 0, ![n].right = 0]

\* n.last.right = u of Append dereferences a nil pointer: the call panics
AppendPanics(h, n) == h[n].first # 0 /\ h[n].last = 0

\* an Append that does not count the node it appends
Node_AppendNoCount(h, n, u) ==
  IF h[n].first = 0
    THEN [h EXCEPT ![n].first = u, ![n].last = u]
  ELSE IF h[n].last = 0 THEN h
    ELSE LET h2 == [h EXCEPT ![h[n].last].right = u]
             h3 == [h2 EXCEPT ![u].left = h2[n].last]
         IN  [h3 EXCEPT ![n].last = u]

\* Node.Append; when the call panics, the heap as the panic leaves it
Node_Append(h, n, u) ==
  LET h1 == [h EXCEPT ![n].Count = @ + 1]
  IN  IF h1[n].first = 0
        THEN [h1 EXCEPT ![n].first = u, ![n].last = u]
      ELSE IF h1[n].last = 0 THEN h1
        ELSE LET h2 == [h1 EXCEPT ![h1[n].last].right = u]
                 h3 == [h2 EXCEPT ![u].left = h2[n].last]
             IN  [h3 EXCEPT ![n].last = u]

\* Node.Add: the new node is the one at the end of the heap
Node_Add(h, n, t, v) ==
  LET u == Len(h) + 1
  IN  Node_Append(h \o <<[ZeroNode EXCEPT !.T = t, !.V = v, !.P = n]>>, n, u)

\* a Cut that forgets the parent's pointer to its first child
Node_CutKeepFirst(h, n) ==
  LET h1 == IF h[n].left # 0
              THEN [h EXCEPT ![h[n].left].right = h[n].right] ELSE h
      h2 == IF h1[n].right # 0
              THEN [h1 EXCEPT ![h1[n].right].left = h1[n].left] ELSE h1
      p  == h2[n].P
      h3 == IF p = 0 THEN h2
            ELSE LET a == [h2 EXCEPT ![p].Count = @ - 1]
                 IN  IF n = a[p].last THEN [a EXCEPT ![p].last = a[n].left]
                     ELSE a
  IN  [h3 EXCEPT ![n].P = 0, ![n].left = 0, ![n].right = 0]

\* Node.Cut
Node_Cut(h, n) ==
  LET h1 == IF h[n].left # 0
              THEN [h EXCEPT ![h[n].left].right = h[n].right] ELSE h
      h2 == IF h1[n].right # 0
              THEN [h1 EXCEPT ![h1[n].right].left = h1[n].left] ELSE h1
      p  == h2[n].P
      h3 == IF p = 0 THEN h2
            ELSE LET a == [h2 EXCEPT ![p].Count = @ - 1]
                     b == IF n = a[p].first
                            THEN [a EXCEPT ![p].first = a[n].right] ELSE a
                 IN  IF n = b[p].last THEN [b EXCEPT ![p].last = b[n].left]
                     ELSE b
  IN  [h3 EXCEPT ![n].P = 0, ![n].left = 0, ![n].right = 0]

\* n.last.right = from.first of Take dereferences a nil pointer
TakePanics(h, n, from) ==
  h[from].first # 0 /\ h[n].first # 0 /\ h[n].last = 0

\* Node.Take; when the call panics, the heap as the panic leaves it
Node_Take(h, n, from) ==
  IF h[from].first = 0 THEN h
  ELSE IF TakePanics(h, n, from)
    THEN [h EXCEPT ![n].Count = @ + h[from].Count]
  ELSE
    LET m == IF h[n].first = 0
               THEN LET a == [h EXCEPT ![n].first = h[from].first]
                        b == [a EXCEPT ![n].last = a[from].last]
                    IN  [b EXCEPT ![n].Count = b[from].Count]
               ELSE LET a == [h EXCEPT ![n].Count = @ + h[from].Count]
                        b == [a EXCEPT ![a[n].last].right = a[from].first]
                        c == [b EXCEPT ![b[from].first].left = b[n].last]
                    IN  [c EXCEPT ![n].last = c[from].last]
    IN  [m EXCEPT ![from].Count = 0, ![from].first = 0, ![from].last = 0]

\* a Morph that leaves the value of n as it was
Node_MorphKeepValue(h, n, c) ==
  [h EXCEPT ![n].T = h[c].T, ![n].P = h[c].P,
            ![n].left = h[c].left, ![n].right = h[c].right,
            ![n].first = h[c].first, ![n].last = h[c].last,
            ![n].Count = h[c].Count]

\* Node.Morph
Node_Morph(h, n, c) ==
  LET i == Node_Init(h, n)
  IN  [i EXCEPT ![n].T = i[c].T, ![n].V = i[c].V, ![n].P = i[c].P,
                ![n].left = i[c].left, ![n].right = i[c].right,
                ![n].first = i[c].first, ![n].last = i[c].last,
                ![n].Count = i[c].Count]

\* the elements of the list s
Range(s) == { s[i] : i \in 1..Len(s) }

\* qstack.QS.Unshift puts the items at the front of the list, the first
\* item first, and Shift takes the front one: WalkDeepPre, which is this
\* loop, visits 0 1 11 2 22 3 33 in ExampleNode_WalkDeepPre
Unshift(list, items) == items \o list

\* qstack.QS.Push puts the items at the back of the list, the first item
\* first: WalkLevels visits 0 1 2 3 11 22 33 in ExampleNode_WalkLevels
Push(list, items) == list \o items

\* a loop over a tree of k nodes that has made 2^k visits is under a node
\* that is under itself, and does not end
MaxVisits(h) == 2 ^ Len(h)

\* The loop of Node.WalkLevels (deep = FALSE) and of Node.WalkDeepPre
\* (deep = TRUE): the nodes in the order they are given to do, or Forever
\* when the loop does not end.
RECURSIVE WalkLoop(_, _, _, _)
WalkLoop(h, list, visited, deep) ==
  IF list = <<>> THEN visited
  ELSE IF Len(visited) >= MaxVisits(h) \/ Node_Nodes(h, Head(list)) = Forever
    THEN Forever
  ELSE With(IF deep THEN Unshift(Tail(list), Node_Nodes(h, Head(list)))
                    ELSE Push(Tail(list), Node_Nodes(h, Head(list))),
            LAMBDA l :
              With(visited \o <<Head(list)>>,
                   LAMBDA v : WalkLoop(h, l, v, deep)))

\* a WalkLevels that goes down before it goes right
Node_WalkLevelsDeep(h, n) == WalkLoop(h, <<n>>, <<>>, TRUE)

\* Node.WalkLevels with a do that records the node it is given
Node_WalkLevels(h, n) == WalkLoop(h, <<n>>, <<>>, FALSE)

\* a WalkDeepPre that visits the nodes level by level
Node_WalkDeepPreLevels(h, n) == WalkLoop(h, <<n>>, <<>>, FALSE)

\* Node.WalkDeepPre with a do that records the node it is given
Node_WalkDeepPre(h, n) == WalkLoop(h, <<n>>, <<>>, TRUE)

\* The first loop of Node.Copy: the nodes in the order the loop shifts them
\* from the list, or Forever when the loop does not end (a node under
\* itself, or a Nodes() that does not end).
RECURSIVE CopyVisit(_, _, _)
CopyVisit(h, list, visited) ==
  IF list = <<>> THEN visited
  ELSE IF Len(visited) >= Len(h) \/ Node_Nodes(h, Head(list)) = Forever
    THEN Forever
  ELSE CopyVisit(h, Unshift(Tail(list), Node_Nodes(h, Head(list))),
                 visited \o <<Head(list)>>)

\* the clones map of Node.Copy: the clone of the i-th node visited is the
\* node allocated at Len(h) + i, a node visited again gets a new clone
ClonesOf(h, visited) ==
  [o \in Range(visited) |->
     Len(h) + CHOOSE i \in 1..Len(visited) :
                /\ visited[i] = o
                /\ \A j \in 1..Len(visited) : visited[j] = o => j <= i]

\* clones[p] of Go: the nil pointer for a p that is not a key of the map
MapGet(clones, p) == IF p \in DOMAIN clones THEN clones[p] ELSE 0

\* a Copy that leaves the first and last links of the clones as copied
Node_CopyShared(h, n) ==
  LET visited == CopyVisit(h, <<n>>, <<>>)
      clones == ClonesOf(h, visited)
      h1 == h \o [i \in 1..Len(visited) |-> h[visited[i]]]
      cloned == { clones[o] : o \in DOMAIN clones }
  IN  [heap |-> [i \in 1..Len(h1) |->
                   IF i \in cloned
                     THEN [h1[i] EXCEPT !.P = MapGet(clones, @),
                                        !.left = MapGet(clones, @),
                                        !.right = MapGet(clones, @)]
                     ELSE h1[i]],
       c |-> clones[n],
       clones |-> clones]

\* a Copy that leaves the parent link of the clones as copied
Node_CopyKeepParent(h, n) ==
  LET visited == CopyVisit(h, <<n>>, <<>>)
      clones == ClonesOf(h, visited)
      h1 == h \o [i \in 1..Len(visited) |-> h[visited[i]]]
      cloned == { clones[o] : o \in DOMAIN clones }
  IN  [heap |-> [i \in 1..Len(h1) |->
                   IF i \in cloned
                     THEN [h1[i] EXCEPT !.left = MapGet(clones, @),
                                        !.right = MapGet(clones, @),
                                        !.first = MapGet(clones, @),
                                        !.last = MapGet(clones, @)]
                     ELSE h1[i]],
       c |-> clones[n],
       clones |-> clones]

\* Node.Copy, for a node whose first loop ends: the heap after the call, the
\* node returned and the clones map
Node_Copy(h, n) ==
  LET visited == CopyVisit(h, <<n>>, <<>>)
      clones == ClonesOf(h, visited)
      h1 == h \o [i \in 1..Len(visited) |-> h[visited[i]]]
      cloned == { clones[o] : o \in DOMAIN clones }
  IN  [heap |-> [i \in 1..Len(h1) |->
                   IF i \in cloned
                     THEN [h1[i] EXCEPT !.P = MapGet(clones, @),
                                        !.left = MapGet(clones, @),
                                        !.right = MapGet(clones, @),
                                        !.first = MapGet(clones, @),
                                        !.last = MapGet(clones, @)]
                     ELSE h1[i]],
       c |-> clones[n],
       clones |-> clones]

\* the decimal digits of the types the model uses
TypeText == <<"0", "1", "2", "3">>

\* a MarshalJSON that does not return
Hangs == <<"hangs">>

\* a jsnode encoded without the omitempty of N
JsonObjectWithEmptyN(T, V, N) ==
  <<"{", "T", TypeText[T + 1]>>
  \o (IF V # "" THEN <<"V", V>> ELSE <<>>)
  \o <<"N", "[">> \o N \o <<"]">>
  \o <<"}">>

\* enc.Encode of the jsnode {T, V, N}, N given as the tokens of its nodes:
\* the keys in the order of the struct, V and N left out when empty
JsonObject(T, V, N) ==
  <<"{", "T", TypeText[T + 1]>>
  \o (IF V # "" THEN <<"V", V>> ELSE <<>>)
  \o (IF N # <<>> THEN <<"N", "[">> \o N \o <<"]">> ELSE <<>>)
  \o <<"}">>

\* Node.MarshalJSON as the list of the tokens of the text: T always, V and N
\* when not empty, the nodes of N marshalled by MarshalJSON in their turn;
\* path holds the nodes being marshalled, and a node under itself hangs
RECURSIVE MarshalJSON(_, _, _), MarshalNodes(_, _, _)
MarshalJSON(h, n, path) ==
  IF n \in path \/ Node_Nodes(h, n) = Forever THEN Hangs
  ELSE With(MarshalNodes(h, Node_Nodes(h, n), path \cup {n}),
            LAMBDA N :
              IF N = Hangs THEN Hangs
              ELSE JsonObject(h[n].T, h[n].V, N))

MarshalNodes(h, list, path) ==
  IF list = <<>> THEN <<>>
  ELSE With(MarshalJSON(h, Head(list), path),
            LAMBDA first :
              IF first = Hangs THEN Hangs
              ELSE With(MarshalNodes(h, Tail(list), path),
                        LAMBDA rest :
                          IF rest = Hangs THEN Hangs ELSE first \o rest))

\* the text of a node that is not under itself
JSON(h, n) == MarshalJSON(h, n, {})

----------------------------------------------------------------------------
(* The callers of ast.Node.                                                *)

\* the heap holds at most MaxNodes nodes
MaxNodes == 4

\* the callers make at most MaxCalls steps on the nodes
MaxCalls == 5

\* a call has panicked and has ended the program
Crashed == ret.op = "panic"

\* the call op, given arg, panics
Panics(op, arg) == ret' = [op |-> "panic", val |-> op, arg |-> arg]

\* one more step on the nodes
Call == ~Crashed /\ calls < MaxCalls /\ calls' = calls + 1

\* the pointers to the nodes allocated so far
Ids == 1..Len(heap)

\* the types and values given to Add: a branch to be and a leaf
AddArgs == { [t |-> 1, v |-> ""], [t |-> 2, v |-> "x"] }

\* a program that has made one node with new(ast.Node) and no scanner
InitTree ==
  /\ Buf = <<>>
  /\ R = NUL /\ B = 0 /\ E = 0
  /\ errors = <<>>
  /\ maxerr = 0
  /\ marks = {}
  /\ fresh = FALSE
  /\ stale = FALSE
  /\ ret = [op |-> "new", val |-> 1]
  /\ heap = <<ZeroNode>>
  /\ cp = <<>>
  /\ calls = 0

\* n := new(ast.Node)
DoNewNode ==
  /\ Len(heap) < MaxNodes
  /\ Call
  /\ heap' = heap \o <<ZeroNode>>
  /\ Called("new", Len(heap) + 1)
  /\ UNCHANGED <<scannerVars, cp>>

\* u := n.Add(t, v)
AddStep(n, a) ==
  /\ Len(heap) < MaxNodes
  /\ Call
  /\ heap' = Node_Add(heap, n, a.t, a.v)
  /\ IF AppendPanics(heap, n)
       THEN Panics("Add", [n |-> n, t |-> a.t, v |-> a.v])
       ELSE CalledWith("Add", Len(heap) + 1,
                       [n |-> n, t |-> a.t, v |-> a.v])
  /\ UNCHANGED <<scannerVars, cp>>

DoAdd == \E n \in Ids, a \in AddArgs : AddStep(n, a)

\* n.Cut()
CutStep(n) ==
  /\ Call
  /\ heap' = Node_Cut(heap, n)
  /\ CalledWith("Cut", n, [n |-> n])
  /\ UNCHANGED <<scannerVars, cp>>

DoCut == \E n \in Ids : CutStep(n)

\* n.Take(from)
TakeStep(n, from) ==
  /\ Call
  /\ heap' = Node_Take(heap, n, from)
  /\ IF TakePanics(heap, n, from)
       THEN Panics("Take", [n |-> n, from |-> from])
       ELSE CalledWith("Take", TRUE, [n |-> n, from |-> from])
  /\ UNCHANGED <<scannerVars, cp>>

DoTake == \E n \in Ids, from \in Ids : TakeStep(n, from)

\* n.Morph(c)
DoMorph ==
  \E n \in Ids, c \in Ids :
    /\ Call
    /\ heap' = Node_Morph(heap, n, c)
    /\ CalledWith("Morph", TRUE, [n |-> n, c |-> c])
    /\ UNCHANGED <<scannerVars, cp>>

\* The tree model: nodes made with new and Add, cut, taken and morphed.
NextTree == DoNewNode \/ DoAdd \/ DoCut \/ DoTake \/ DoMorph

SpecTree == InitTree /\ [][NextTree]_vars

\* the orders in which the elements of the list s can be visited
Orders(s) == { o \in [1..Len(s) -> Range(s)] : Range(o) = Range(s) }

\* c.Cut() for every c of the list order, one after the other
RECURSIVE CutAll(_, _)
CutAll(h, order) ==
  IF order = <<>> THEN h
  ELSE With(Node_Cut(h, Head(order)), LAMBDA x : CutAll(x, Tail(order)))

\* n.Append(u) for every u of list, one after the other, up to the first
\* call that panics
RECURSIVE AppendAll(_, _, _)
AppendAll(h, n, list) ==
  IF list = <<>> THEN h
  ELSE IF AppendPanics(h, n) THEN Node_Append(h, n, Head(list))
  ELSE With(Node_Append(h, n, Head(list)),
            LAMBDA x : AppendAll(x, n, Tail(list)))

\* one of these calls of Append panics
RECURSIVE AppendAllPanics(_, _, _)
AppendAllPanics(h, n, list) ==
  /\ list # <<>>
  /\ \/ AppendPanics(h, n)
     \/ With(Node_Append(h, n, Head(list)),
             LAMBDA x : AppendAllPanics(x, n, Tail(list)))

\* for _, c := range order { c.Cut() }; for _, c := range list { n.Append(c) }
\* with list the n.Nodes() of before and order the same nodes in any order
DoCutReadd ==
  \E n \in Ids :
    LET list == Node_Nodes(heap, n)
    IN  /\ list # <<>>
        /\ list # Forever
        /\ \E order \in Orders(list) :
             /\ Call
             /\ heap' = AppendAll(CutAll(heap, order), n, list)
             /\ LET arg == [n |-> n, order |-> order,
                            added |-> \A i \in 1..Len(list) :
                                        heap[list[i]].P = n]
                IN  IF AppendAllPanics(CutAll(heap, order), n, list)
                      THEN Panics("CutReadd", arg)
                      ELSE CalledWith("CutReadd", list, arg)
             /\ UNCHANGED <<scannerVars, cp>>

\* The cut model: a tree built with Add, its nodes cut and appended back.
NextCut == DoAdd \/ DoCut \/ DoCutReadd

SpecCut == InitTree /\ [][NextCut]_vars

\* the value and the type the callers assign to a node: n.V = "y", n.T = 3
NewValue == "y"
NewType == 3

\* x and y are both nodes of the copy or both nodes of the original
SameSide(x, y) == (x \in cp.own) = (y \in cp.own)

\* n.Add(t, v) before the copy is made
DoBuild == cp = <<>> /\ DoAdd

\* c := n.Copy(); own is the set of the nodes of the copy
DoNodeCopy ==
  \E n \in Ids :
    /\ cp = <<>>
    /\ Call
    /\ CopyVisit(heap, <<n>>, <<>>) # Forever
    /\ \E r \in {Node_Copy(heap, n)} :
         /\ heap' = r.heap
         /\ cp' = [n |-> n, c |-> r.c, own |-> (Len(heap) + 1)..Len(r.heap)]
         /\ CalledWith("Copy", r.c, [n |-> n, clones |-> r.clones])
    /\ UNCHANGED scannerVars

\* u := n.Add(t, v) on a node of the copy or of the original: u is on the
\* side of n
DoEditAdd ==
  \E n \in Ids, a \in AddArgs :
    /\ cp # <<>>
    /\ Len(heap) < 2 * MaxNodes
    /\ Call
    /\ heap' = Node_Add(heap, n, a.t, a.v)
    /\ IF AppendPanics(heap, n)
         THEN Panics("Add", [n |-> n, t |-> a.t, v |-> a.v])
         ELSE CalledWith("Add", Len(heap) + 1,
                         [n |-> n, t |-> a.t, v |-> a.v])
    /\ cp' = IF n \in cp.own
               THEN [cp EXCEPT !.own = @ \cup {Len(heap) + 1}]
               ELSE cp
    /\ UNCHANGED scannerVars

\* n.Cut() on a node of the copy or of the original
DoEditCut == cp # <<>> /\ DoCut

\* n.Take(from), both nodes of the copy or both nodes of the original
DoEditTake ==
  /\ cp # <<>>
  /\ \E n \in Ids, from \in Ids : SameSide(n, from) /\ TakeStep(n, from)

\* n.V = "y"
DoSetV ==
  \E n \in Ids :
    /\ cp # <<>>
    /\ Call
    /\ heap' = [heap EXCEPT ![n].V = NewValue]
    /\ CalledWith("SetV", NewValue, [n |-> n])
    /\ UNCHANGED <<scannerVars, cp>>

\* n.T = 3
DoSetT ==
  \E n \in Ids :
    /\ cp # <<>>
    /\ Call
    /\ heap' = [heap EXCEPT ![n].T = NewType]
    /\ CalledWith("SetT", NewType, [n |-> n])
    /\ UNCHANGED <<scannerVars, cp>>

\* The copy model: a tree built with Add, one node of it copied, then the
\* nodes of the copy and those of the original changed.
NextCopy ==
  \/ DoBuild
  \/ DoNodeCopy
  \/ DoEditAdd
  \/ DoEditCut
  \/ DoEditTake
  \/ DoSetV
  \/ DoSetT

SpecCopy == InitTree /\ [][NextCopy]_vars

\* n.WalkLevels(do)
DoWalkLevels ==
  \E n \in Ids :
    /\ Call
    /\ CalledWith("WalkLevels", Node_WalkLevels(heap, n), [n |-> n])
    /\ UNCHANGED <<scannerVars, heap, cp>>

\* n.WalkDeepPre(do)
DoWalkDeepPre ==
  \E n \in Ids :
    /\ Call
    /\ CalledWith("WalkDeepPre", Node_WalkDeepPre(heap, n), [n |-> n])
    /\ UNCHANGED <<scannerVars, heap, cp>>

\* The walk model: nodes made with Add, cut and taken, and walked.
NextWalk == DoAdd \/ DoCut \/ DoTake \/ DoWalkLevels \/ DoWalkDeepPre

SpecWalk == InitTree /\ [][NextWalk]_vars

\* n.MarshalJSON()
DoMarshalJSON ==
  \E n \in Ids :
    /\ Call
    /\ CalledWith("MarshalJSON", JSON(heap, n), [n |-> n])
    /\ UNCHANGED <<scannerVars, heap, cp>>

\* The serialization model: trees built with Add, cut and marshalled.
NextJSON == DoAdd \/ DoCut \/ DoMarshalJSON

SpecJSON == InitTree /\ [][NextJSON]_vars

\* ---------------------------------------------------------------------
\* Properties of the scan predicates, checked under SpecScan

C2Preds ==
  { "C_ws", "WhiteSpace", "WhiteSpace_Scan", "C_digit", "Field", "MajorVer",
    "SomeWS", "SomeWS_loop", "EndLine", "EndPara" }

\* C2 (mandatory diagnostics): a scan predicate that returns false leaves
\* the error stack strictly longer than it was before the call, at the end
\* of the buffer too.
C2_MandatoryDiagnostics ==
  [][(ret'.op \in C2Preds /\ ret'.val = FALSE)
       => Len(errors') > Len(errors)]_vars

\* the predicates C3 names: the consuming ones
C3Preds ==
  { "C_ws", "WhiteSpace", "WhiteSpace_Scan", "C_digit", "Field", "MajorVer",
    "SomeWS", "SomeWS_loop", "EndLine" }

\* C3 (success advancement): a consuming scan predicate that returns true
\* leaves E strictly greater than it was before the call.
C3_SuccessAdvancement ==
  [][(ret'.op \in C3Preds /\ ret'.val = TRUE) => E' > E]_vars

\* ---------------------------------------------------------------------
\* Properties of the cursor and of the error stack, checked under SpecErr

\* C4 (Mark/Goto round trip): Mark returns the cursor (R, B, E) and Goto,
\* after any number of calls of Scan, makes R, B and E equal to the values
\* the mark holds; neither changes the buffer or the error stack.
C4_MarkGotoRoundTrip ==
  [][/\ ret'.op = "Mark"
          => /\ marks' = {Cursor(R, B, E)}
             /\ UNCHANGED <<Buf, R, B, E, errors>>
     /\ ret'.op = "Goto"
          => /\ \E m \in marks : R' = m.R /\ B' = m.B /\ E' = m.E
             /\ UNCHANGED <<Buf, errors, marks>>]_vars

\* C4 happens: the scanner has gone back from the end of the buffer to a
\* mark taken after the first rune, while the error stack holds an error.
C4_Witness ==
  /\ ret.op = "Goto"
  /\ marks = {Cursor(97, 0, 1)}
  /\ R = 97 /\ B = 0 /\ E = 1
  /\ errors # <<>>

\* C6 (Scan at the end of the buffer): with E >= len(Buf), Scan returns
\* false and leaves the buffer, R, B, E and the error stack as they were,
\* however many times it is called.
C6_ScanAtEnd ==
  [][(ret'.op = "Scan" /\ E >= Len(Buf))
       => (ret'.val = FALSE /\ UNCHANGED <<Buf, R, B, E, errors>>)]_vars

\* C6 happens: Scan has returned false at the end of a buffer that is not
\* empty, with an error on the stack.
C6_Witness ==
  /\ ret.op = "Scan" /\ ret.val = FALSE
  /\ E >= Len(Buf) /\ E > 0
  /\ errors # <<>>

\* C10 (error stack bound): once SetMaxErr(n) has been called with n > 0, a
\* call of Expected or Revert made with at most n records on the error
\* stack leaves at most n records on it.
C10_ErrorStackBound ==
  [][(maxerr > 0 /\ Len(errors) <= maxerr
        /\ ret'.op \in {"Expected", "Revert"})
       => Len(errors') <= maxerr]_vars

\* ---------------------------------------------------------------------
\* Properties of Scan and of the copies, checked under Spec

\* the Unicode scalar values: the code points UTF-8 encodes
IsScalar(r) == r >= 0 /\ r <= 1114111 /\ ~(r >= 55296 /\ r <= 57343)

\* the UTF-8 encoding of the scalar value r
EncodeRune(r) ==
  IF r < 128 THEN <<r>>
  ELSE IF r < 2048 THEN <<192 + (r \div 64), 128 + (r % 64)>>
  ELSE IF r < 65536
    THEN <<224 + (r \div 4096), 128 + ((r \div 64) % 64), 128 + (r % 64)>>
  ELSE <<240 + (r \div 262144), 128 + ((r \div 4096) % 64),
         128 + ((r \div 64) % 64), 128 + (r % 64)>>

\* the number the payload bits of the bytes bs spell, bs read as one
\* UTF-8 sequence of 1 to 4 bytes
PayloadOf(bs) ==
  CASE Len(bs) = 1 -> bs[1]
    [] Len(bs) = 2 -> (bs[1] - 192) * 64 + (bs[2] - 128)
    [] Len(bs) = 3 -> (bs[1] - 224) * 4096 + (bs[2] - 128) * 64 + (bs[3] - 128)
    [] Len(bs) = 4 -> (bs[1] - 240) * 262144 + (bs[2] - 128) * 4096
                        + (bs[3] - 128) * 64 + (bs[4] - 128)

\* the bytes of buf from offset e on begin with the encoding of a scalar
\* value
ValidAt(buf, e) ==
  \E n \in 1..4 :
    /\ e >= 0 /\ e + n <= Len(buf)
    /\ LET bs == Slice(buf, e, e + n)
       IN  IsScalar(PayloadOf(bs)) /\ EncodeRune(PayloadOf(bs)) = bs

\* C5 (Scan on invalid input): when the bytes at E do not begin a valid
\* UTF-8 encoding, Scan returns false and leaves R, B and E unchanged.
C5_ScanInvalid ==
  [][(ret'.op = "Scan" /\ E >= 0 /\ E < Len(Buf) /\ ~ValidAt(Buf, E))
       => (ret'.val = FALSE /\ UNCHANGED <<R, B, E>>)]_vars

\* C7 (Scan bookkeeping): after a Scan that returns true, B is the value E
\* had before the call, E - B is between 1 and 4 and is the length of the
\* UTF-8 encoding of R, and Buf[B:E] is that encoding.
C7_ScanBookkeeping ==
  [][(ret'.op = "Scan" /\ ret'.val = TRUE)
       => /\ B' = E
          /\ E' - B' \in 1..4
          /\ IsScalar(R')
          /\ E' - B' = Len(EncodeRune(R'))
          /\ Slice(Buf', B', E') = EncodeRune(R')]_vars

\* C8 as stated (cursor bounds): B <= E <= len(Buf) in every state reached
\* by Buffer, Scan, Mark and Goto, Goto given any cursor Mark has returned.
C8_CursorBounds == B <= E /\ E <= Len(Buf)

\* C8 amended: B <= E <= len(Buf) as long as every Goto was given a cursor
\* that Mark returned since the last call of Buffer.
C8_CursorBoundsFreshMarks == ~stale => (B <= E /\ E <= Len(Buf))

\* C8 happens: Goto has taken the scanner to a mark of the present buffer,
\* which lies at its end.
C8_Witness ==
  /\ ret.op = "Goto" /\ fresh /\ ~stale
  /\ marks = {Cursor(R, B, E)}
  /\ B < E /\ E = Len(Buf)

\* C9 (normalized range extraction): a copy made with the scanner on one
\* cursor of the buffer and given another one (or the same one) does not
\* fail and is the copy made with the two cursors exchanged.
C9_CopyNormalized ==
  (ret.op \in CopyOps /\ fresh /\ ~stale)
    => \A m \in marks :
         /\ ret.val # Panic
         /\ ret.val = Copy(ret.op, Buf, Goto(S, m), Mark(S))

\* ---------------------------------------------------------------------
\* Properties of Revert and of the error stack, checked under SpecErr

C12_ErrorStackLifo ==
  [][/\ ret'.op = "ErrPush"
          => /\ errors' = errors \o <<ret'.arg>>
             /\ UNCHANGED <<Buf, R, B, E>>
     /\ ret'.op = "ErrPop"
          => /\ UNCHANGED <<Buf, R, B, E>>
             /\ IF errors = <<>>
                  THEN ret'.val = <<>> /\ errors' = <<>>
                  ELSE /\ ret'.val = <<errors[Len(errors)]>>
                       /\ errors' = [i \in 1..(Len(errors) - 1) |-> errors[i]]
     /\ (ret.op = "ErrPush" /\ ret'.op = "ErrPop")
          => ret'.val = <<ret.arg>>
    ]_vars

\* C12 happens: ErrPop has returned the younger of two different records
\* and left the older one on the stack.
C12_Witness ==
  /\ ret.op = "ErrPop"
  /\ Len(errors) = 1
  /\ ret.val # <<>>
  /\ ret.val # <<errors[1]>>

\* ---------------------------------------------------------------------
\* Properties of Buffer, checked under SpecBuf

\* C13 (Buffer): Buffer given a string or a byte slice makes it the
\* buffer, sets the cursor to R = NUL, B = 0, E = 0 and leaves the error
\* stack as it was.
C13_Buffer ==
  [][ret'.op = "Buffer"
       => /\ Buf' = ret'.arg
          /\ R' = NUL /\ B' = 0 /\ E' = 0
          /\ errors' = errors]_vars

\* C13 happens: Buffer has replaced the buffer of a scanner that had
\* scanned and that holds errors.
C13_Witness ==
  /\ ret.op = "Buffer"
  /\ Buf # ErrBuffer
  /\ errors # <<>>

\* ---------------------------------------------------------------------
\* Properties of Peek, checked under Spec

LeafOrBranch(h) ==
  \A i \in 1..Len(h) : ~(h[i].V # "" /\ h[i].first # 0)

GivesChildrenToLeaf ==
  /\ ret'.op \in {"Add", "Take"}
  /\ heap[ret'.arg.n].V # ""

C16_Take ==
  [][(/\ \/ ret'.op = "Take"
         \/ ret'.op = "panic" /\ ret'.val = "Take"
      /\ ret'.arg.n # ret'.arg.from
      /\ Node_Nodes(heap, ret'.arg.n) # Forever
      /\ Node_Nodes(heap, ret'.arg.from) # Forever)
       => LET r == ret'.arg.n
              d == ret'.arg.from
          IN  /\ ret'.op = "Take"
              /\ Node_Nodes(heap', d) = <<>>
              /\ heap'[d].Count = 0
              /\ Node_Nodes(heap', r)
                   = Node_Nodes(heap, r) \o Node_Nodes(heap, d)
              /\ heap'[r].Count = heap[r].Count + heap[d].Count]_vars

\* ---------------------------------------------------------------------
\* Properties of Cut and Append, checked under SpecCut

\* the list s without its element c
Without(s, c) == SelectSeq(s, LAMBDA x : x # c)

\* C17 (Cut): for a node c that is the first, a middle or the last child of
\* its parent p, after c.Cut() p.Nodes() is the previous list without c, the
\* others in their order, p.Count is one less, c has no parent and no left
\* or right sibling, and c keeps its type, its value and its children.
C17_Cut ==
  [][(/\ ret'.op = "Cut"
      /\ heap[ret'.arg.n].P # 0
      /\ Node_Nodes(heap, heap[ret'.arg.n].P) # Forever
      /\ ret'.arg.n \in Range(Node_Nodes(heap, heap[ret'.arg.n].P)))
       => LET c == ret'.arg.n
              p == heap[c].P
          IN  /\ Node_Nodes(heap', p) = Without(Node_Nodes(heap, p), c)
              /\ heap'[p].Count = heap[p].Count - 1
              /\ heap'[c].P = 0
              /\ heap'[c].left = 0
              /\ heap'[c].right = 0
              /\ heap'[c].T = heap[c].T
              /\ heap'[c].V = heap[c].V
              /\ heap'[c].Count = heap[c].Count
              /\ Node_Nodes(heap', c) = Node_Nodes(heap, c)]_vars

\* C17 happens: the middle one of three children has been cut, and its
\* parent is left with the first and the last.
C17_Witness ==
  /\ ret.op = "Cut"
  /\ heap[ret.val].P = 0
  /\ \E p \in 1..Len(heap) :
       /\ heap[p].Count = 2
       /\ Len(Node_Nodes(heap, p)) = 2
       /\ Node_Nodes(heap, p)[1] < ret.val
       /\ ret.val < Node_Nodes(heap, p)[2]

\* C18 (cut then re-add): for a node n whose children were all put under it
\* by Add, cutting every child, in any order, and then appending them back
\* under n in their original order gives an n.Nodes() list equal to the
\* original one, the same nodes in the same order, and the original Count;
\* no call panics.
C18_CutReadd ==
  [][(/\ \/ ret'.op = "CutReadd"
         \/ ret'.op = "panic" /\ ret'.val = "CutReadd"
      /\ \A c \in Range(Node_Nodes(heap, ret'.arg.n)) :
           heap[c].P = ret'.arg.n)
       => /\ ret'.op = "CutReadd"
          /\ Node_Nodes(heap', ret'.arg.n) = Node_Nodes(heap, ret'.arg.n)
          /\ heap'[ret'.arg.n].Count = heap[ret'.arg.n].Count]_vars

\* C18 happens: three children that Add had put under n have been cut, the
\* last one first, and appended back, and n lists them as before.
C18_Witness ==
  /\ ret.op = "CutReadd"
  /\ ret.arg.added
  /\ Len(ret.val) = 3
  /\ ret.arg.order[1] = ret.val[3]
  /\ Node_Nodes(heap, ret.arg.n) = ret.val
  /\ heap[ret.arg.n].Count = 3

\* ---------------------------------------------------------------------
\* Properties of Copy, checked under SpecCopy

\* the nodes a node x points to
Links(h, x) ==
  {h[x].P, h[x].left, h[x].right, h[x].first, h[x].last} \ {0}

\* the nodes reached from the nodes of seen through at most k links
RECURSIVE ReachFrom(_, _, _)
ReachFrom(h, seen, k) ==
  IF k = 0 THEN seen
  ELSE With(seen \cup UNION { Links(h, x) : x \in seen }, LAMBDA next :
         IF next = seen THEN seen ELSE ReachFrom(h, next, k - 1))

\* the nodes reached from n through the links, n included
Reach(h, n) == ReachFrom(h, {n}, Len(h))

\* the nodes of x.Nodes(), none when the call does not return
Kids(h, x) ==
  IF Node_Nodes(h, x) = Forever THEN {} ELSE Range(Node_Nodes(h, x))

\* the nodes under the nodes of seen down to k levels, those of seen included
RECURSIVE Under(_, _, _)
Under(h, seen, k) ==
  IF k = 0 THEN seen
  ELSE Under(h, seen \cup UNION { Kids(h, x) : x \in seen }, k - 1)

\* the nodes of the subtree of n
Subtree(h, n) == Under(h, {n}, Len(h))

\* C19 (Copy independence): once c := n.Copy() is made of a node of a tree
\* built by Add, no node is reached from both n and c, an Add, Cut, Take or
\* assignment of a value or a type on the nodes of c leaves the serialization
\* of n as it was, and one on the nodes of n leaves that of c as it was.
C19_CopyIndependence ==
  [][cp' # <<>>
       => /\ Reach(heap', cp'.n) \cap Reach(heap', cp'.c) = {}
          /\ (cp # <<>> /\ ret'.arg.n \in cp'.own)
               => JSON(heap', cp.n) = JSON(heap, cp.n)
          /\ (cp # <<>> /\ ret'.arg.n \notin cp'.own)
               => JSON(heap', cp.c) = JSON(heap, cp.c)]_vars

\* C19 happens: the copy of a node with a child has lost its child to Cut
\* and was given a new value, and the original still has its child.
C19_Witness ==
  /\ cp # <<>>
  /\ ret.op = "SetV"
  /\ ret.arg.n = cp.c
  /\ heap[cp.c].first = 0
  /\ heap[cp.n].first # 0
  /\ heap[cp.n].V = ""
  /\ JSON(heap, cp.n) # JSON(heap, cp.c)

\* C20 (Copy structure): for a node n, root or not, of a tree built by Add,
\* n.Copy() returns a new node with no parent and no siblings; the nodes of
\* the subtree of n have one clone each, with the same type, value and
\* Count, and with the clones of its children as children, in their order;
\* the parent, left, right, first and last links of a clone point to the
\* clones of the nodes the original points to, or nowhere when the original
\* points out of the subtree; the two serialize alike; the original nodes
\* are as they were.
C20_CopyStructure ==
  [][ret'.op = "Copy"
       => LET n == ret'.arg.n
              c == ret'.val
              clones == ret'.arg.clones
          IN  /\ c = clones[n]
              /\ heap'[c].P = 0 /\ heap'[c].left = 0 /\ heap'[c].right = 0
              /\ DOMAIN clones = Subtree(heap, n)
              /\ \A o \in DOMAIN clones :
                   /\ clones[o] \in (Len(heap) + 1)..Len(heap')
                   /\ \A q \in DOMAIN clones : clones[q] = clones[o] => q = o
                   /\ heap'[clones[o]].T = heap[o].T
                   /\ heap'[clones[o]].V = heap[o].V
                   /\ heap'[clones[o]].Count = heap[o].Count
                   /\ Node_Nodes(heap', clones[o])
                        = [i \in 1..Len(Node_Nodes(heap, o)) |->
                             clones[Node_Nodes(heap, o)[i]]]
                   /\ heap'[clones[o]].P = MapGet(clones, heap[o].P)
                   /\ heap'[clones[o]].left = MapGet(clones, heap[o].left)
                   /\ heap'[clones[o]].right = MapGet(clones, heap[o].right)
                   /\ heap'[clones[o]].first = MapGet(clones, heap[o].first)
                   /\ heap'[clones[o]].last = MapGet(clones, heap[o].last)
                   /\ o # n => /\ heap[o].P \in DOMAIN clones
                               /\ heap[o].left \in DOMAIN clones \cup {0}
                               /\ heap[o].right \in DOMAIN clones \cup {0}
              /\ JSON(heap', c) = JSON(heap, n)
              /\ \A i \in 1..Len(heap) : heap'[i] = heap[i]]_vars

\* C20 happens: a node with a parent, a left sibling and a child has been
\* copied, and the copy has a child and neither parent nor sibling.
C20_Witness ==
  /\ ret.op = "Copy"
  /\ heap[ret.arg.n].P # 0
  /\ heap[ret.arg.n].left # 0
  /\ heap[ret.arg.n].first # 0
  /\ heap[ret.val].first # 0
  /\ heap[ret.val].P = 0
  /\ heap[ret.val].left = 0

\* ---------------------------------------------------------------------
\* Properties of Morph, checked under SpecTree

\* C21 (Morph): after m.Morph(n), m is the node it was, its type, value,
\* Count, parent, sibling links and child list are those n had, m serializes
\* as n does, and n is as it was before the call.
C21_Morph ==
  [][ret'.op = "Morph"
       => LET m == ret'.arg.n
              n == ret'.arg.c
          IN  /\ Len(heap') = Len(heap)
              /\ heap'[m] = heap[n]
              /\ Node_Nodes(heap', m) = Node_Nodes(heap, n)
              /\ JSON(heap', m) = JSON(heap', n)
              /\ heap'[n] = heap[n]]_vars

\* ---------------------------------------------------------------------
\* Properties of the walks, checked under SpecWalk

\* the nodes under n make a tree: the lists of children end and hold no
\* node twice, n is the child of none of them, and every other one is the
\* child of exactly one of them
IsTree(h, n) ==
  /\ \A x \in Subtree(h, n) :
       /\ Node_Nodes(h, x) # Forever
       /\ Cardinality(Kids(h, x)) = Len(Node_Nodes(h, x))
       /\ n \notin Kids(h, x)
  /\ \A y \in Subtree(h, n) \ {n} :
       Cardinality({ x \in Subtree(h, n) : y \in Kids(h, x) }) = 1

\* the children of the nodes of level, in the order of level
RECURSIVE ChildrenOf(_, _)
ChildrenOf(h, level) ==
  IF level = <<>> THEN <<>>
  ELSE Node_Nodes(h, Head(level)) \o ChildrenOf(h, Tail(level))

\* the nodes of level, then those of the k levels below it
RECURSIVE LevelsFrom(_, _, _)
LevelsFrom(h, level, k) ==
  IF level = <<>> \/ k = 0 THEN level
  ELSE level \o LevelsFrom(h, ChildrenOf(h, level), k - 1)

\* the place of x in the list s
Pos(s, x) == CHOOSE i \in 1..Len(s) : s[i] = x

\* C22 (WalkLevels): on a tree, WalkLevels visits every node of the subtree
\* of the receiver exactly once: the receiver first, then the nodes of
\* depth 1 from left to right, then those of depth 2 from left to right,
\* and so on; the order is a function of the tree.
C22_WalkLevels ==
  [][(ret'.op = "WalkLevels" /\ IsTree(heap, ret'.arg.n))
       => /\ ret'.val = LevelsFrom(heap, <<ret'.arg.n>>, Len(heap))
          /\ ret'.val = Node_WalkLevels(heap', ret'.arg.n)
          /\ Range(ret'.val) = Subtree(heap, ret'.arg.n)
          /\ Len(ret'.val) = Cardinality(Subtree(heap, ret'.arg.n))
          /\ heap' = heap]_vars

\* C22 happens: WalkLevels has visited a node, its two children and then
\* the child of the first of them.
C22_Witness ==
  /\ ret.op = "WalkLevels"
  /\ IsTree(heap, ret.arg.n)
  /\ Len(ret.val) = 4
  /\ Node_Nodes(heap, ret.arg.n) = <<ret.val[2], ret.val[3]>>
  /\ Node_Nodes(heap, ret.val[2]) = <<ret.val[4]>>

\* C23 (WalkDeepPre): on a tree, WalkDeepPre visits every node of the
\* subtree of the receiver exactly once, the receiver first, each node
\* before all the nodes under it, and all the nodes under a child, with the
\* child, before the siblings to the right of that child.
C23_WalkDeepPre ==
  [][(ret'.op = "WalkDeepPre" /\ IsTree(heap, ret'.arg.n))
       => /\ Range(ret'.val) = Subtree(heap, ret'.arg.n)
          /\ Len(ret'.val) = Cardinality(Subtree(heap, ret'.arg.n))
          /\ ret'.val[1] = ret'.arg.n
          /\ \A x \in Range(ret'.val) :
               \A d \in Subtree(heap, x) \ {x} :
                 Pos(ret'.val, x) < Pos(ret'.val, d)
          /\ \A x \in Range(ret'.val) :
               \A i, j \in 1..Len(Node_Nodes(heap, x)) :
                 i < j => \A d \in Subtree(heap, Node_Nodes(heap, x)[i]) :
                            Pos(ret'.val, d)
                              < Pos(ret'.val, Node_Nodes(heap, x)[j])
          /\ heap' = heap]_vars

\* C23 happens: WalkDeepPre has visited a node, its first child, the child
\* of that child and then its second child.
C23_Witness ==
  /\ ret.op = "WalkDeepPre"
  /\ IsTree(heap, ret.arg.n)
  /\ Len(ret.val) = 4
  /\ Node_Nodes(heap, ret.arg.n) = <<ret.val[2], ret.val[4]>>
  /\ Node_Nodes(heap, ret.val[2]) = <<ret.val[3]>>

\* ---------------------------------------------------------------------
\* Properties of MarshalJSON, checked under SpecJSON

\* the serializations of the nodes of list, one after the other
RECURSIVE TextsOf(_, _)
TextsOf(h, list) ==
  IF list = <<>> THEN <<>> ELSE JSON(h, Head(list)) \o TextsOf(h, Tail(list))

C25_MarshalJSONError ==
  [][ret'.op = "MarshalJSON"
       => /\ (heap[ret'.arg.n].V # "" /\ heap[ret'.arg.n].first # 0)
               => ret'.val[1] # "{"
          /\ ~(Len(ret'.val) >= 6 /\ ret'.val[4] = "V"
                 /\ ret'.val[6] = "N")]_vars


\* ---------------------------------------------------------------------
\* The parse functions: a scan predicate wrapped into a node constructor
\* ---------------------------------------------------------------------

FieldT == 2
UprintT == 3
WhiteSpaceT == 1

\* Go's string(r) of a rune: its UTF-8 encoding, that of U+FFFD when r is
\* not a scalar value
RuneString(r) == IF IsScalar(r) THEN EncodeRune(r) ELSE EncodeRune(RuneError)

\* &Node{T: t, V: v}: a node with no parent, no sibling and no child
NewNode(t, v) ==
  [T |-> t, V |-> v, P |-> 0, Count |-> 0,
   left |-> 0, right |-> 0, first |-> 0, last |-> 0]

\* what a parse function returns: no node (nil) or one, and the scanner
Parsed(node, s) == [node |-> node, s |-> s]

\* parse.C_ws
parse_C_ws(buf, s) ==
  LET r == C_ws(buf, s)
  IN  IF ~r.ok THEN Parsed(<<>>, r.s)
      ELSE Parsed(<<NewNode(id_C_ws, RuneString(r.s.R))>>, r.s)

\* pegn.WhiteSpace.Parse
WhiteSpace_Parse(buf, s) ==
  LET r == WhiteSpace_Scan(buf, s)
  IN  IF ~r.ok THEN Parsed(<<>>, r.s)
      ELSE Parsed(<<NewNode(WhiteSpaceT, RuneString(r.s.R))>>, r.s)

\* pegn.Uprint.Parse
Uprint_Parse(buf, s) ==
  LET r == Uprint_Scan(buf, s)
  IN  IF ~r.ok THEN Parsed(<<>>, r.s)
      ELSE Parsed(<<NewNode(UprintT, RuneString(r.s.R))>>, r.s)

\* pegn.Field.Parse
Field_Parse(buf, s) ==
  LET m == Mark(s)
      r == Field_Scan(buf, s)
  IN  IF ~r.ok THEN Parsed(<<>>, r.s)
      ELSE Parsed(<<NewNode(FieldT, CopyEE(buf, r.s, m))>>, r.s)

Parsers == { "parse_C_ws", "WhiteSpace_Parse", "Uprint_Parse", "Field_Parse" }

\* the scan predicate a parse function wraps, and the type of its nodes
ScanOf(p) ==
  CASE p = "parse_C_ws" -> "C_ws"
    [] p = "WhiteSpace_Parse" -> "WhiteSpace_Scan"
    [] p = "Uprint_Parse" -> "Uprint_Scan"
    [] p = "Field_Parse" -> "Field_Scan"

TypeOf(p) ==
  CASE p = "parse_C_ws" -> id_C_ws
    [] p = "WhiteSpace_Parse" -> WhiteSpaceT
    [] p = "Uprint_Parse" -> UprintT
    [] p = "Field_Parse" -> FieldT

ApplyParse(p, buf, s) ==
  CASE p = "parse_C_ws" -> parse_C_ws(buf, s)
    [] p = "WhiteSpace_Parse" -> WhiteSpace_Parse(buf, s)
    [] p = "Uprint_Parse" -> Uprint_Parse(buf, s)
    [] p = "Field_Parse" -> Field_Parse(buf, s)

\* a caller runs one parse function on the scanner; the history keeps the
\* returned node and what the scan predicate answers from the same state
DoParse ==
  \E p \in Parsers :
    LET r == ApplyParse(p, Buf, S)
    IN  /\ errors = <<>>
        /\ SetS(r.s)
        /\ CalledWith(p, r.node, [scan |-> Apply(ScanOf(p), Buf, S).ok])
        /\ UNCHANGED <<treeVars, Buf, maxerr, marks, fresh, stale>>

\* the inputs of the parse functions: text, and bytes that are no UTF-8
ParseChunks == { <<SP>>, <<LF>>, <<97>>, <<195, 169>>, <<195>>, <<128>> }
ParseBuffers == ChunkSeqs(ParseChunks, MaxChunks)

InitParse == \E b \in ParseBuffers : New(b)

NextParse == DoScan \/ DoParse \/ DoErrPop

SpecParse == InitParse /\ [][NextParse]_vars

\* ---------------------------------------------------------------------
\* Properties of the parse functions
\* ---------------------------------------------------------------------

\* C26: each parse function returns nil exactly when its scan predicate
\* returns false, and then the cursor is unchanged; when the scan succeeds
\* it returns a childless node whose T is the rule's type and whose V is
\* exactly the bytes consumed by the scan, Buf[E_before : E_after].
C26_ParseWrapsScan ==
  [][\A p \in Parsers :
       ret'.op = p =>
         /\ (ret'.val = <<>>) <=> ~ret'.arg.scan
         /\ ret'.val = <<>> => R' = R /\ B' = B /\ E' = E
         /\ ret'.val # <<>> =>
              /\ ret'.val[1].T = TypeOf(p)
              /\ ret'.val[1].first = 0 /\ ret'.val[1].last = 0
              /\ ret'.val[1].Count = 0
              /\ ret'.val[1].V = Slice(Buf, E, E')]_vars


\* ---------------------------------------------------------------------
\* Properties of the single rules, checked under SpecScan

\* the rules of one code point, the class and the type of each
ClassRules == { "C_ws", "WhiteSpace", "C_digit" }

InClass(p, b) ==
  IF p = "C_digit" THEN b \in 48..57 ELSE b \in {SP, TAB, LF, CR}

RuleType(p) ==
  CASE p = "C_ws" -> id_C_ws
    [] p = "WhiteSpace" -> T_WhiteSpace
    [] p = "C_digit" -> id_C_digit

\* C27 (single-code-point class rules): scan.C_ws, scan.WhiteSpace and
\* scan.C_digit return true iff a next code point exists at E and is a
\* member of the class, and then the cursor has advanced by exactly that
\* one code point; when the next code point exists but is not a member the
\* rule returns false, the cursor is unchanged and exactly one error
\* carrying the rule's type has been pushed.
C27_ClassRules ==
  [][\A p \in ClassRules :
       ret'.op = p =>
         /\ ret'.val = (E < Len(Buf) /\ InClass(p, Buf[E + 1]))
         /\ ret'.val => /\ B' = E /\ E' = E + 1 /\ R' = Buf[E + 1]
                        /\ errors' = errors
         /\ (E < Len(Buf) /\ ~InClass(p, Buf[E + 1])) =>
              /\ R' = R /\ B' = B /\ E' = E
              /\ Len(errors') = Len(errors) + 1
              /\ SubSeq(errors', 1, Len(errors)) = errors
              /\ errors'[Len(errors')].T = RuleType(p)]_vars

\* C27 happens: after a digit was consumed, C_digit has refused the two
\* bytes of U+00E9 that follow it and has pushed its one error.
C27_Witness ==
  /\ ret.op = "C_digit" /\ ret.val = FALSE
  /\ E > 0 /\ Buf[E] = 49 /\ R = 49
  /\ E + 1 < Len(Buf) /\ Buf[E + 1] = 195
  /\ Len(errors) = 1 /\ errors[1].T = id_C_digit


\* the unscanned input starts with an end of line of n bytes: LF, or CR LF
EndOfLineAt(buf, e, n) ==
  \/ n = 1 /\ e < Len(buf) /\ buf[e + 1] = LF
  \/ n = 2 /\ e + 1 < Len(buf) /\ buf[e + 1] = CR /\ buf[e + 2] = LF

\* C28 (EndLine): from any scanner state EndLine returns true iff the
\* unscanned input starting at E begins with LF or with CR LF; on true E
\* has advanced by exactly 1 (LF) or exactly 2 (CR LF) and R is LF; in
\* every other state, the end of the buffer and a CR not followed by LF
\* included, it returns false.
C28_EndLine ==
  [][ret'.op = "EndLine" =>
       /\ ret'.val = (\E n \in {1, 2} : EndOfLineAt(Buf, E, n))
       /\ ret'.val => /\ \E n \in {1, 2} :
                            EndOfLineAt(Buf, E, n) /\ E' = E + n
                      /\ R' = LF]_vars


\* the unscanned input starts with two ends of line, n bytes together
TwoEndsOfLineAt(buf, e, n) ==
  \E n1, n2 \in {1, 2} :
    /\ n = n1 + n2
    /\ EndOfLineAt(buf, e, n1)
    /\ EndOfLineAt(buf, e + n1, n2)

\* C29 (EndPara): from any scanner state whose unscanned input begins with
\* two consecutive ends of line (each LF or CR LF), whatever follows them,
\* EndPara returns true and leaves E advanced past at least those two ends
\* of line.
C29_EndPara ==
  [][\A n \in 2..4 :
       (ret'.op = "EndPara" /\ TwoEndsOfLineAt(Buf, E, n))
         => (ret'.val = TRUE /\ E' >= E + n)]_vars


\* the rules that repeat a class, and the code points each one matches
RepeatRules == { "Field", "MajorVer", "SomeWS", "SomeWS_loop" }

Matches(p, r) ==
  CASE p = "Field" -> C_uprint(r) /\ r # SP
    [] p = "MajorVer" -> C_digit_class(r)
    [] p = "SomeWS" -> r \in {SP, TAB, CR, LF}
    [] p = "SomeWS_loop" -> r \in {SP, TAB, CR, LF}

\* the cursor on the last code point of the longest run of matching code
\* points that starts at the E of s (s itself when the run is empty)
RECURSIVE RunEnd(_, _, _)
RunEnd(p, buf, s) ==
  LET sc == Scan(buf, s)
  IN  IF sc.ok /\ Matches(p, sc.s.R) THEN RunEnd(p, buf, sc.s) ELSE s

\* C30 (repetition rules): when Field, MajorVer or SomeWS returns true, R is
\* the last code point of the longest run of matching code points starting
\* at the previous E, E is the offset just after that run, and the first
\* code point that does not match (if any) is left unscanned for the next
\* predicate.
C30_RepetitionRules ==
  [][\A p \in RepeatRules :
       (ret'.op = p /\ ret'.val = TRUE)
         => /\ R' = RunEnd(p, Buf, S).R
            /\ B' = RunEnd(p, Buf, S).B
            /\ E' = RunEnd(p, Buf, S).E
            /\ E' > E]_vars


\* ---------------------------------------------------------------------
\* S.Positions, S.Pos and S.String: the position and the text a scanner
\* reports about itself
\* ---------------------------------------------------------------------

ViewLenDefault == 10

\* the NewLine a scanner has when the field is nil
DefaultNewLine == << <<CR, LF>>, <<LF>> >>

\* the zero value of Position, which make([]Position, len(p)) fills pos with
ZeroPosition ==
  [Rune |-> 0, BufByte |-> 0, BufRune |-> 0, Line |-> 0, LByte |-> 0,
   LRune |-> 0]

\* S.Is: the bytes from B on are those of a
Is(buf, s, a) ==
  IF Len(a) + s.B > Len(buf) THEN FALSE
  ELSE Slice(buf, s.B, s.B + Len(a)) = a

\* the counters of S.Positions once the newline nl has been tried
TryNewLine(buf, c, nl) ==
  IF Is(buf, c.s, nl)
  THEN [c EXCEPT !.line = @ + 1, !.s.E = @ + Len(nl) - 1,
                 !._rune = @ + Len(nl) - 1, !.lbyte = 0, !.lrune = 0]
  ELSE c

\* "for _, nl := range s.NewLine": the continue goes on with the next
\* newline of the list, every newline of the list is tried
RECURSIVE RangeNewLine(_, _, _, _)
RangeNewLine(buf, nls, i, c) ==
  IF i > Len(nls) THEN c
  ELSE With(TryNewLine(buf, c, nls[i]), LAMBDA c1 :
         RangeNewLine(buf, nls, i + 1, c1))

\* "for i, v := range p": the positions asked for that are at _s.E
RangeP(p, c, pos) ==
  [i \in 1..Len(p) |->
     IF c.s.E = p[i]
     THEN [Rune |-> c.s.R, BufByte |-> c.s.E, BufRune |-> c._rune,
           Line |-> c.line, LByte |-> c.lbyte, LRune |-> c.lrune]
     ELSE pos[i]]

\* "for _s.Scan()" of S.Positions; rlen is the length of string(s.R), the
\* rune of the receiver
RECURSIVE PositionsLoop(_, _, _, _, _, _)
PositionsLoop(buf, nls, p, rlen, c, pos) ==
  With(Scan(buf, c.s), LAMBDA sc :
    IF ~sc.ok THEN pos
    ELSE With(RangeNewLine(buf, nls, 1, [c EXCEPT !.s = sc.s]), LAMBDA c1 :
           With(RangeP(p, c1, pos), LAMBDA pos1 :
             PositionsLoop(buf, nls, p, rlen,
                           [c1 EXCEPT !.lbyte = @ + rlen, !.lrune = @ + 1,
                                      !._rune = @ + 1],
                           pos1))))

\* a Positions that takes the length of the rune it has just scanned
PositionsOwnRune(buf, s, nls, p) ==
  IF Len(p) = 0 THEN <<>>
  ELSE PositionsLoop(buf, IF nls = <<>> THEN DefaultNewLine ELSE nls, p, 0,
                     [s |-> [R |-> NUL, B |-> 0, E |-> 0, errors |-> <<>>],
                      _rune |-> 1, line |-> 1, lbyte |-> 1, lrune |-> 1],
                     [i \in 1..Len(p) |-> ZeroPosition])

\* S.Positions of a scanner s whose NewLine is nls (<<>> for nil)
Positions(buf, s, nls, p) ==
  IF Len(p) = 0 THEN <<>>
  ELSE PositionsLoop(buf, IF nls = <<>> THEN DefaultNewLine ELSE nls, p,
                     Len(RuneString(s.R)),
                     [s |-> [R |-> NUL, B |-> 0, E |-> 0, errors |-> <<>>],
                      _rune |-> 1, line |-> 1, lbyte |-> 1, lrune |-> 1],
                     [i \in 1..Len(p) |-> ZeroPosition])

\* S.Pos
S_Pos(buf, s, nls) == Positions(buf, s, nls, <<s.E>>)[1]

\* a String whose preview starts at the rune last scanned
StringFromB(buf, s, viewlen) ==
  LET vl  == IF viewlen = 0 THEN ViewLenDefault ELSE viewlen
      end == IF s.B + vl > Len(buf) THEN Len(buf) ELSE s.B + vl
  IN  <<s.R, s.B, s.E, Slice(buf, s.B, end)>>

\* S.String with viewlen the preview length of the scanner: the parts of
\* the text "%q %v-%v %q", the rune, B, E and the bytes of the preview
String(buf, s, viewlen) ==
  LET vl  == IF viewlen = 0 THEN ViewLenDefault ELSE viewlen
      end == IF s.E + vl > Len(buf) THEN Len(buf) ELSE s.E + vl
  IN  <<s.R, s.B, s.E, Slice(buf, s.E, end)>>

\* the NewLine lists a caller sets: nil, and lists that name CR LF
NewLines ==
  { <<>>, << <<LF>>, <<CR, LF>> >>, << <<CR, LF>>, <<CR>>, <<LF>> >> }

\* the preview lengths a caller sets with SetViewLen (0: not set)
ViewLens == { 0, 1, 2 }

\* s.NewLine = nls; s.Positions(v)
DoPositions ==
  \E nls \in NewLines, v \in 0..Len(Buf) :
    /\ CalledWith("Positions", Positions(Buf, S, nls, <<v>>),
                  [v |-> v, nls |-> nls])
    /\ UNCHANGED <<treeVars, scannerVars>>

\* s.NewLine = nls; s.Pos()
DoPos ==
  \E nls \in NewLines :
    /\ CalledWith("Pos", <<S_Pos(Buf, S, nls)>>, [v |-> E, nls |-> nls])
    /\ UNCHANGED <<treeVars, scannerVars>>

\* s.SetViewLen(a); s.String()
DoString ==
  \E a \in ViewLens :
    /\ CalledWith("String", String(Buf, S, a), [viewlen |-> a])
    /\ UNCHANGED <<treeVars, scannerVars>>

\* the inputs of the positions: lines of one-byte and two-byte code points
\* that end with LF, with CR LF or with CR
PosChunks == { <<LF>>, <<CR>>, <<97>>, <<195, 169>> }
PosBuffers == ChunkSeqs(PosChunks, MaxChunks)

\* The diagnostics model: a scanner over such a buffer, moved by Scan and
\* asked for positions and for its text.
InitPos == \E b \in PosBuffers : New(b)

NextPos == DoScan \/ DoPositions \/ DoPos \/ DoString

SpecPos == InitPos /\ [][NextPos]_vars


\* ---------------------------------------------------------------------
\* Properties of the positions and of the text, checked under SpecPos

\* the offsets at which a code point of buf ends, from the offset e on
RECURSIVE CodePointEnds(_, _)
CodePointEnds(buf, e) ==
  LET sc == Scan(buf, [R |-> NUL, B |-> e, E |-> e, errors |-> <<>>])
  IN  IF sc.ok THEN {sc.s.E} \cup CodePointEnds(buf, sc.s.E) ELSE {}

\* the newlines of a NewLine list, those of the default list when it is nil
NewLineSet(nls) == Range(IF nls = <<>> THEN DefaultNewLine ELSE nls)

\* the newlines of nlset that start at the offset i of buf and end by v
NewLinesAt(buf, nlset, i, v) ==
  { nl \in nlset : i + Len(nl) <= v /\ Slice(buf, i, i + Len(nl)) = nl }

\* the number of newline sequences that lie within buf[i:v], each taken as
\* long as it can be
RECURSIVE CountNewLines(_, _, _, _)
CountNewLines(buf, nlset, i, v) ==
  IF i >= v THEN 0
  ELSE LET here == NewLinesAt(buf, nlset, i, v)
       IN  IF here = {} THEN CountNewLines(buf, nlset, i + 1, v)
           ELSE LET nl == CHOOSE x \in here :
                            \A y \in here : Len(y) <= Len(x)
                IN  1 + CountNewLines(buf, nlset, i + Len(nl), v)

\* C31 (line counting): for any buffer and any requested offset v that is
\* the end of a code point or of a newline sequence, the Line of
\* Positions(v) is 1 plus the number of newline sequences that lie within
\* Buf[0:v]; with the default NewLine and with any NewLine that lists CR LF
\* a CR LF adds exactly one to Line.
C31_LineCounting ==
  [][(ret'.op = "Positions" /\ ret'.arg.v \in CodePointEnds(Buf, 0))
       => ret'.val[1].Line
            = 1 + CountNewLines(Buf, NewLineSet(ret'.arg.nls), 0,
                                ret'.arg.v)]_vars


\* the offset at which the line of v starts: the end of the last newline
\* sequence within buf[i:v], start when there is none
RECURSIVE LineStart(_, _, _, _, _)
LineStart(buf, nlset, i, v, start) ==
  IF i >= v THEN start
  ELSE LET here == NewLinesAt(buf, nlset, i, v)
       IN  IF here = {} THEN LineStart(buf, nlset, i + 1, v, start)
           ELSE LET nl == CHOOSE x \in here :
                            \A y \in here : Len(y) <= Len(x)
                IN  LineStart(buf, nlset, i + Len(nl), v, i + Len(nl))

\* C32 (columns): for any buffer, with code points of several bytes too,
\* and any requested offset v at a code point boundary, the LByte of
\* Positions(v) is the number of bytes from the start of the line of v up
\* to v and LRune is the number of code points in that span, whatever the
\* cursor of the scanner is.
C32_Columns ==
  [][(ret'.op = "Positions" /\ ret'.arg.v \in {0} \cup CodePointEnds(Buf, 0))
       => LET v == ret'.arg.v
              start == LineStart(Buf, NewLineSet(ret'.arg.nls), 0, v, 0)
          IN  /\ ret'.val[1].LByte = v - start
              /\ ret'.val[1].LRune
                   = Cardinality({ e \in CodePointEnds(Buf, 0) :
                                     start < e /\ e <= v })]_vars


\* C33 (positions count from 1): in every scanner state and for every
\* offset v with 0 <= v <= len(Buf), each of BufByte, BufRune, Line, LByte
\* and LRune of the Position that Pos() or Positions(v) returns is at
\* least 1.
C33_OneBased ==
  [][ret'.op \in {"Pos", "Positions"}
       => /\ ret'.val[1].BufByte >= 1
          /\ ret'.val[1].BufRune >= 1
          /\ ret'.val[1].Line >= 1
          /\ ret'.val[1].LByte >= 1
          /\ ret'.val[1].LRune >= 1]_vars

DoInit ==
  \E n \in Ids :
    /\ Call
    /\ heap' = Node_Init(heap, n)
    /\ CalledWith("Init", TRUE, [n |-> n])
    /\ UNCHANGED <<scannerVars, cp>>

\* The reset model: nodes made with Add, cut and reset with Init.
NextInit == DoAdd \/ DoCut \/ DoInit

SpecInit == InitTree /\ [][NextInit]_vars

\* n.Append(u)
DoAppend ==
  \E n \in Ids, u \in Ids :
    /\ Call
    /\ heap' = Node_Append(heap, n, u)
    /\ IF AppendPanics(heap, n)
         THEN Panics("Append", [n |-> n, u |-> u])
         ELSE CalledWith("Append", TRUE, [n |-> n, u |-> u])
    /\ UNCHANGED <<scannerVars, cp>>

\* The append model: nodes made with new and Add, appended and cut.
NextAppend == DoNewNode \/ DoAdd \/ DoAppend \/ DoCut

SpecAppend == InitTree /\ [][NextAppend]_vars

\* ---------------------------------------------------------------------
\* Properties of Init and of Append

\* C35 (Init): after n.Init() on any node, with or without parent, siblings
\* or children, n is in the state of a newly created node: T = 0, V empty,
\* no parent, no left or right sibling, no children and Count = 0.
C35_Init ==
  [][ret'.op = "Init" =>
       /\ heap'[ret'.arg.n] = ZeroNode
       /\ Node_Nodes(heap', ret'.arg.n) = <<>>]_vars

\* a node with no parent and no sibling
Detached(h, u) == h[u].P = 0 /\ h[u].left = 0 /\ h[u].right = 0

\* C36 (Append behaves as Add): for any node n and any detached node u,
\* n.Append(u) leaves u the last element of n.Nodes(), n.Count one more
\* than before and the parent of u n, so that a later u.Cut() removes u
\* from n.Nodes() and takes one from n.Count.
C36_Append ==
  [][(ret'.op = "Append" /\ Detached(heap, ret'.arg.u)
        /\ ret'.arg.u # ret'.arg.n)
       => LET n == ret'.arg.n
              u == ret'.arg.u
              cut == Node_Cut(heap', u)
          IN  /\ Node_Nodes(heap', n) # Forever
              /\ Node_Nodes(heap', n)[Len(Node_Nodes(heap', n))] = u
              /\ heap'[n].Count = heap[n].Count + 1
              /\ heap'[u].P = n
              /\ u \notin Kids(cut, n)
              /\ cut[n].Count = heap[n].Count]_vars


\* ---------------------------------------------------------------------
\* The forest model: nodes made with new and Add, cut and taken, with any
\* nodes as receivers and donors.
NextForest == DoNewNode \/ DoAdd \/ DoCut \/ DoTake

SpecForest == InitTree /\ [][NextForest]_vars

\* ---------------------------------------------------------------------
\* Properties of the forest, checked under SpecForest

\* C37 (child count): after any sequence of Add, Cut and Take on any nodes
\* of a forest, the Count of every node is the length of its Nodes() list
\* and is never negative.
C37_ChildCount ==
  ~Crashed =>
    \A n \in Ids :
      /\ heap[n].Count >= 0
      /\ Node_Nodes(heap, n) # Forever
      /\ heap[n].Count = Len(Node_Nodes(heap, n))

\* C38 (parent links): after any sequence of Add, Cut and Take, every node
\* c of n.Nodes() has the parent n, after r.Take(d) the moved children
\* too, and the first and last pointers of every node are the first and
\* the last element of its Nodes() list.
C38_ParentLinks ==
  ~Crashed =>
    \A n \in Ids :
      LET list == Node_Nodes(heap, n)
      IN  /\ list # Forever
          /\ \A c \in Kids(heap, n) : heap[c].P = n
          /\ heap[n].first = (IF list = <<>> THEN 0 ELSE list[1])
          /\ heap[n].last = (IF list = <<>> THEN 0 ELSE list[Len(list)])

\* the nodes reached from the children of n through child links
Descendants(h, n) == Under(h, Kids(h, n), Len(h))

\* C40 (acyclic): after any sequence of Add, Cut and Take with any nodes of
\* the forest as receivers and donors, a donor that is the receiver or one
\* of its ancestors included, no node is reached from itself through child
\* links, so that Nodes(), WalkLevels, WalkDeepPre, Copy and MarshalJSON
\* end on every node.
C40_Acyclic ==
  ~Crashed =>
    \A n \in Ids :
      /\ n \notin Descendants(heap, n)
      /\ Node_Nodes(heap, n) # Forever
      /\ Node_WalkLevels(heap, n) # Forever
      /\ Node_WalkDeepPre(heap, n) # Forever
      /\ JSON(heap, n) # Hangs



\* ---------------------------------------------------------------------
\* The loop "for s.Scan() {}" run from any state a scanner can be in
\* ---------------------------------------------------------------------

\* the buffers of the loop: code points of one and two bytes, a byte that
\* starts no code point and a code point cut short
LoopChunks == { <<97>>, <<195, 169>>, <<128>>, <<226, 130>> }
LoopBuffers == ChunkSeqs(LoopChunks, MaxChunks)

\* the scanner after k calls of Scan
RECURSIVE ScanTimes(_, _, _)
ScanTimes(buf, s, k) ==
  IF k = 0 THEN s ELSE ScanTimes(buf, Scan(buf, s).s, k - 1)

\* s := scanner.New(old); k calls of s.Scan(); m := s.Mark(); s.Buffer(b)
\* unless b is old; s.Goto(m): the cursor is any cursor of any buffer the
\* scanner has had, stale when the buffer has been replaced since
InitLoop ==
  \E old \in LoopBuffers, b \in LoopBuffers, k \in 0..MaxChunks :
    LET s == ScanTimes(old, [R |-> NUL, B |-> 0, E |-> 0, errors |-> <<>>], k)
    IN  /\ Buf = b
        /\ R = s.R /\ B = s.B /\ E = s.E
        /\ errors = <<>>
        /\ maxerr = 0
        /\ marks = {Mark(s)}
        /\ fresh = (old = b)
        /\ stale = (old # b)
        /\ ret = [op |-> "Goto", val |-> TRUE]
        /\ heap = <<>>
        /\ cp = <<>>
        /\ calls = 0

\* the loop calls Scan again and again, and nothing else
NextLoop == DoScan

SpecLoop == InitLoop /\ [][NextLoop]_vars /\ WF_vars(DoScan)

\* ---------------------------------------------------------------------
\* Properties of the loop, checked under SpecLoop

====
